---- MODULE Spec2Model ----
(***************************************************************************)
(* Model of the energy_data_hub repository:                                *)
(*   - WeatherDataFetcher (ensamble_precipitation_ronne_module.py): the    *)
(*     request -> metadata -> table assembly -> persistence pipeline of    *)
(*     fetch_weather_data and save_dataframe;                              *)
(*   - the logger script (simple_print.py).                                *)
(* Three specifications:                                                   *)
(*   Spec        repeated calls of fetch_weather_data on one fetcher, with *)
(*               the wall clock and the output directory;                  *)
(*   SpecTable   the table assembly (lines 119-150) applied to every       *)
(*               response of a bounded set;                                *)
(*   SpecScript  repeated runs of the logger script appending to app.log.  *)
(***************************************************************************)
EXTENDS Integers, Sequences, FiniteSets, TLC

VARIABLES
    pc,          \* position inside fetch_weather_data
    args,        \* [start_date, end_date] of the current call
    tz,          \* the process's local time zone rule: [at, shift]
    resp,        \* responses[0] of the current call
    metadata,    \* the metadata dict of the current call
    df,          \* the polars DataFrame being built: [time, cols]
    result,      \* what the call gave its caller
    log,         \* INFO/ERROR records the current call emitted
    stages,      \* the stages the current call executed: [stage, ok]
    httpCalls,   \* calls of client.weather_api in the current call
    writeCalls,  \* calls of df.write_csv in the current call
    files,       \* names of the files in output_dir
    filesAtCall, \* files when the current call started
    clock,       \* wall clock, in ticks of 1/TicksPerSecond s
    nCalls,      \* calls started so far
    nSuccess,    \* calls that returned so far
    spc,         \* position inside simple_print.py
    slog,        \* app.log (append mode)
    stdout,      \* what the script printed
    sbase,       \* length of app.log when the current run started
    sfailed,     \* the statement of the try block that raised in this run
    sraised,     \* the script ended with an uncaught exception
    runs         \* runs of the script so far

vars == <<pc, args, tz, resp, metadata, df, result, log, stages, httpCalls,
          writeCalls, files, filesAtCall, clock, nCalls, nSuccess,
          spc, slog, stdout, sbase, sfailed, sraised, runs>>

fetcherVars == <<pc, args, tz, resp, metadata, df, result, log, stages,
                 httpCalls, writeCalls, files, filesAtCall, clock, nCalls,
                 nSuccess>>

scriptVars == <<spc, slog, stdout, sbase, sfailed, sraised, runs>>

----------------------------------------------------------------------------
(* Bounds *)

MaxVars == 3          \* variables in one response's hourly block
MaxCalls == 2         \* calls of fetch_weather_data
MaxClock == 3         \* last tick of the wall clock
MaxRuns == 3          \* runs of the logger script

Members == {0, 1}     \* ensemble member indices
Lens == {1, 2}        \* lengths of a variable's value array
StartEpochs == {0, 3600}
EndEpochs == {3600, 7200}
TzRules == {[at |-> 3600, shift |-> sh] : sh \in {0 - 3600, 0, 3600}}
DateRanges == {<<"2025-02-12", "2025-02-13">>, <<"2025-02-13", "2025-02-14">>}

(* Program constants *)

Hour == 3600          \* interval='1h'
TicksPerSecond == 2   \* strftime("%Y%m%d_%H%M%S") truncates to a second

Kinds == {"precipitation", "rain", "other"}

HourlyVars == [kind : Kinds, member : Members, n : Lens]

RECURSIVE SeqsUpTo(_, _)
SeqsUpTo(S, n) ==
    IF n = 0 THEN {<<>>}
    ELSE LET shorter == SeqsUpTo(S, n - 1)
         IN  shorter \cup {Append(q, x) : q \in {r \in shorter : Len(r) = n - 1}, x \in S}

Responses ==
    {[start |-> s, end |-> e, vars |-> vs] :
        s \in StartEpochs, e \in EndEpochs, vs \in SeqsUpTo(HourlyVars, MaxVars)}

\* the responses drawn in the runs of Spec
PipeMaxVars == 1
PipeResponses == {r \in Responses : Len(r.vars) <= PipeMaxVars}

NoResp == [start |-> 0, end |-> 0, vars |-> <<>>]
NoDf == [time |-> <<>>, cols |-> <<>>]
NoArgs == <<"", "">>

----------------------------------------------------------------------------
(* Table assembly, lines 119-150 *)

\* hourly_variables filtered by x.Variable() == kind, as indices into the
\* response's variable list, in list order.
RECURSIVE FilterFrom(_, _, _)
FilterFrom(vs, kind, i) ==
    IF i > Len(vs) THEN <<>>
    ELSE IF vs[i].kind = kind THEN <<i>> \o FilterFrom(vs, kind, i + 1)
    ELSE FilterFrom(vs, kind, i + 1)

Filter(vs, kind) == FilterFrom(vs, kind, 1)

\* datetime.fromtimestamp(t): the naive local wall time of epoch t.
UtcOffset(t) == IF t >= tz.at THEN tz.shift ELSE 0

FromTimestamp(t) == t + UtcOffset(t)

\* pl.datetime_range(start, end, interval='1h', closed='left', eager=True)
RECURSIVE DatetimeRange(_, _)
DatetimeRange(start, end) ==
    IF start >= end THEN <<>>
    ELSE <<start>> \o DatetimeRange(start + Hour, end)

TimeAxis(r) == DatetimeRange(FromTimestamp(r.start), FromTimestamp(r.end))

\* f"{prefix}_member{member}"
ColumnNameNoMember(prefix, member) == prefix \o "_member"

ColumnName(prefix, member) == prefix \o "_member" \o ToString(member)

RECURSIVE IndexOfName(_, _, _)
IndexOfName(cols, name, i) ==
    IF i > Len(cols) THEN 0
    ELSE IF cols[i].name = name THEN i
    ELSE IndexOfName(cols, name, i + 1)

\* df.with_columns(pl.Series(name, values)): a Series whose length differs
\* from the frame's height raises; a column of that name is replaced in
\* place; a new name is appended.
WithColumnsFitsAnyLength(d, col) == TRUE

WithColumnsFits(d, col) == col.len = Len(d.time)

WithColumns(d, col) ==
    LET i == IndexOfName(d.cols, col.name, 1)
    IN  IF i = 0 THEN [d EXCEPT !.cols = Append(@, col)]
        ELSE [d EXCEPT !.cols[i] = col]

\* one of the two for-loops: [ok, df]; ok is FALSE when with_columns raised.
RECURSIVE AddSeries(_, _, _, _)
AddSeries(st, vs, idxs, prefix) ==
    IF idxs = <<>> \/ ~st.ok THEN st
    ELSE LET v == vs[Head(idxs)]
             col == [name |-> ColumnName(prefix, v.member), len |-> v.n,
                     src |-> Head(idxs)]
         IN  IF WithColumnsFits(st.df, col)
             THEN AddSeries([ok |-> TRUE, df |-> WithColumns(st.df, col)],
                            vs, Tail(idxs), prefix)
             ELSE [ok |-> FALSE, df |-> st.df]

\* lines 138-150: the precipitation loop, then the rain loop.
AssembleRainFirst(d, vs) ==
    AddSeries(AddSeries([ok |-> TRUE, df |-> d], vs, Filter(vs, "rain"), "rain"),
              vs, Filter(vs, "precipitation"), "precipitation")

Assemble(d, vs) ==
    AddSeries(AddSeries([ok |-> TRUE, df |-> d], vs,
                        Filter(vs, "precipitation"), "precipitation"),
              vs, Filter(vs, "rain"), "rain")

----------------------------------------------------------------------------
(* Logging *)

Info(msg) == [level |-> "INFO", msg |-> msg]
Error(msg) == [level |-> "ERROR", msg |-> msg]

Errors(l) == SelectSeq(l, LAMBDA x : x.level = "ERROR")

StageOk(s) == [stage |-> s, ok |-> TRUE]
StageFailed(s) == [stage |-> s, ok |-> FALSE]

----------------------------------------------------------------------------
(* save_dataframe, lines 63-65 *)

\* datetime.now().strftime("%Y%m%d_%H%M%S"): the clock truncated to a second.
Strftime(t) == ToString(t \div TicksPerSecond)

Filename(start_date, end_date, now) ==
    "weather_data_" \o start_date \o "_to_" \o end_date \o "_" \o Strftime(now) \o ".csv"

----------------------------------------------------------------------------
(* fetch_weather_data, one action per stage outcome *)

\* line 86: a caller starts a call; everything request-scoped is fresh.
Call ==
    /\ pc \in {"idle", "returned", "raised"}
    /\ nCalls < MaxCalls
    /\ \E a \in DateRanges : args' = a
    /\ pc' = "request"
    /\ resp' = NoResp
    /\ metadata' = "none"
    /\ df' = NoDf
    /\ result' = "none"
    /\ log' = <<Info("Fetching weather data")>>
    /\ stages' = <<>>
    /\ httpCalls' = 0
    /\ writeCalls' = 0
    /\ filesAtCall' = files
    /\ nCalls' = nCalls + 1
    /\ UNCHANGED <<tz, files, clock, nSuccess>>

\* lines 97-100: the client answers; response = responses[0].
RequestOk ==
    /\ pc = "request"
    /\ httpCalls' = httpCalls + 1
    /\ \E r \in PipeResponses : resp' = r
    /\ stages' = Append(stages, StageOk("request"))
    /\ pc' = "metadata"
    /\ UNCHANGED <<args, tz, metadata, df, result, log, writeCalls, files,
                   filesAtCall, clock, nCalls, nSuccess>>

\* lines 101-103: the client raised; the error is logged and re-raised.
RequestFailSwallowed ==
    /\ pc = "request"
    /\ httpCalls' = httpCalls + 1
    /\ log' = Append(log, Error("API request failed"))
    /\ stages' = Append(stages, StageFailed("request"))
    /\ pc' = "save"
    /\ UNCHANGED <<args, tz, resp, metadata, df, result, writeCalls, files,
                   filesAtCall, clock, nCalls, nSuccess>>

RequestFailRetried ==
    /\ pc = "request"
    /\ httpCalls' = httpCalls + 2
    /\ log' = Append(log, Error("API request failed"))
    /\ stages' = Append(stages, StageFailed("request"))
    /\ result' = "raised"
    /\ pc' = "raised"
    /\ UNCHANGED <<args, tz, resp, metadata, df, writeCalls, files,
                   filesAtCall, clock, nCalls, nSuccess>>

RequestFail ==
    /\ pc = "request"
    /\ httpCalls' = httpCalls + 1
    /\ log' = Append(log, Error("API request failed"))
    /\ stages' = Append(stages, StageFailed("request"))
    /\ result' = "raised"
    /\ pc' = "raised"
    /\ UNCHANGED <<args, tz, resp, metadata, df, writeCalls, files,
                   filesAtCall, clock, nCalls, nSuccess>>

\* lines 106-113
MetadataOk ==
    /\ pc = "metadata"
    /\ metadata' = "extracted"
    /\ stages' = Append(stages, StageOk("metadata"))
    /\ pc' = "timeaxis"
    /\ UNCHANGED <<args, tz, resp, df, result, log, httpCalls, writeCalls,
                   files, filesAtCall, clock, nCalls, nSuccess>>

\* lines 114-116
MetadataFailDefault ==
    /\ pc = "metadata"
    /\ metadata' = "default"
    /\ log' = Append(log, Error("Failed to extract metadata"))
    /\ stages' = Append(stages, StageFailed("metadata"))
    /\ pc' = "timeaxis"
    /\ UNCHANGED <<args, tz, resp, df, result, httpCalls, writeCalls,
                   files, filesAtCall, clock, nCalls, nSuccess>>

MetadataFail ==
    /\ pc = "metadata"
    /\ log' = Append(log, Error("Failed to extract metadata"))
    /\ stages' = Append(stages, StageFailed("metadata"))
    /\ result' = "raised"
    /\ pc' = "raised"
    /\ UNCHANGED <<args, tz, resp, metadata, df, httpCalls, writeCalls,
                   files, filesAtCall, clock, nCalls, nSuccess>>

\* lines 120-136: the base DataFrame with the time column.
BuildTimeAxis ==
    /\ pc = "timeaxis"
    /\ df' = [time |-> TimeAxis(resp), cols |-> <<>>]
    /\ pc' = "columns"
    /\ UNCHANGED <<args, tz, resp, metadata, result, log, stages, httpCalls,
                   writeCalls, files, filesAtCall, clock, nCalls, nSuccess>>

\* lines 120-124 raise on a response without a usable hourly block;
\* lines 159-161 log and re-raise.
HourlyFail ==
    /\ pc = "timeaxis"
    /\ log' = Append(log, Error("Failed to process hourly data"))
    /\ stages' = Append(stages, StageFailed("assembly"))
    /\ result' = "raised"
    /\ pc' = "raised"
    /\ UNCHANGED <<args, tz, resp, metadata, df, httpCalls, writeCalls,
                   files, filesAtCall, clock, nCalls, nSuccess>>

\* lines 138-152: both loops ran; or with_columns raised, lines 159-161.
AddColumns ==
    /\ pc = "columns"
    /\ LET res == Assemble(df, resp.vars)
       IN  IF res.ok
           THEN /\ df' = res.df
                /\ log' = Append(log, Info("Successfully processed data"))
                /\ stages' = Append(stages, StageOk("assembly"))
                /\ pc' = "save"
                /\ UNCHANGED result
           ELSE /\ df' = NoDf
                /\ log' = Append(log, Error("Failed to process hourly data"))
                /\ stages' = Append(stages, StageFailed("assembly"))
                /\ result' = "raised"
                /\ pc' = "raised"
    /\ UNCHANGED <<args, tz, resp, metadata, httpCalls, writeCalls, files,
                   filesAtCall, clock, nCalls, nSuccess>>

\* line 155 and lines 63-69: the file is written (an existing file of that
\* name is overwritten).
SaveOk ==
    /\ pc = "save"
    /\ writeCalls' = writeCalls + 1
    /\ files' = files \cup {Filename(args[1], args[2], clock)}
    /\ log' = Append(log, Info("DataFrame saved successfully"))
    /\ stages' = Append(stages, StageOk("persistence"))
    /\ pc' = "saved"
    /\ UNCHANGED <<args, tz, resp, metadata, df, result, httpCalls,
                   filesAtCall, clock, nCalls, nSuccess>>

\* lines 70-72: write_csv raised, save_dataframe logs and re-raises; the call
\* at line 155 is inside the try of line 119, so lines 159-161 log again.
SaveFail ==
    /\ pc = "save"
    /\ writeCalls' = writeCalls + 1
    /\ log' = log \o <<Error("Failed to save DataFrame"),
                       Error("Failed to process hourly data")>>
    /\ stages' = Append(stages, StageFailed("persistence"))
    /\ result' = "raised"
    /\ pc' = "raised"
    /\ UNCHANGED <<args, tz, resp, metadata, df, httpCalls, files,
                   filesAtCall, clock, nCalls, nSuccess>>

\* line 157
Return ==
    /\ pc = "saved"
    /\ result' = "metadata_df"
    /\ pc' = "returned"
    /\ nSuccess' = nSuccess + 1
    /\ UNCHANGED <<args, tz, resp, metadata, df, log, stages, httpCalls,
                   writeCalls, files, filesAtCall, clock, nCalls>>

\* wall-clock time passes
Tick ==
    /\ clock < MaxClock
    /\ clock' = clock + 1
    /\ UNCHANGED <<pc, args, tz, resp, metadata, df, result, log, stages,
                   httpCalls, writeCalls, files, filesAtCall, nCalls, nSuccess>>

FetcherInit ==
    /\ pc = "idle"
    /\ args = NoArgs
    /\ resp = NoResp
    /\ metadata = "none"
    /\ df = NoDf
    /\ result = "none"
    /\ log = <<>>
    /\ stages = <<>>
    /\ httpCalls = 0
    /\ writeCalls = 0
    /\ files = {}
    /\ filesAtCall = {}
    /\ clock = 0
    /\ nCalls = 0
    /\ nSuccess = 0

----------------------------------------------------------------------------
(* simple_print.py, lines 14-19 *)

\* except Exception as e: logging.error(...); the script then ends.
Handler(stmt) ==
    /\ slog' = Append(slog, Error("An error occurred"))
    /\ sfailed' = stmt
    /\ spc' = "done"
    /\ UNCHANGED <<stdout, sbase, sraised, runs>>

\* line 15
LogStartOk ==
    /\ spc = "start"
    /\ slog' = Append(slog, Info("Starting script execution"))
    /\ spc' = "print"
    /\ UNCHANGED <<stdout, sbase, sfailed, sraised, runs>>

LogStartFail ==
    /\ spc = "start"
    /\ Handler("log_start")

\* line 16
PrintOk ==
    /\ spc = "print"
    /\ stdout' = Append(stdout, "say something...")
    /\ spc' = "complete"
    /\ UNCHANGED <<slog, sbase, sfailed, sraised, runs>>

\* the exception of line 16 escaping the script
PrintFailUnhandled ==
    /\ spc = "print"
    /\ sfailed' = "print"
    /\ sraised' = TRUE
    /\ spc' = "done"
    /\ UNCHANGED <<slog, stdout, sbase, runs>>

PrintFail ==
    /\ spc = "print"
    /\ Handler("print")

\* line 17
LogDoneOk ==
    /\ spc = "complete"
    /\ slog' = Append(slog, Info("Script completed successfully"))
    /\ spc' = "done"
    /\ UNCHANGED <<stdout, sbase, sfailed, sraised, runs>>

LogDoneFail ==
    /\ spc = "complete"
    /\ Handler("log_done")

\* the script is run again; filemode='a' keeps the earlier lines of app.log
Rerun ==
    /\ spc = "done"
    /\ runs < MaxRuns
    /\ runs' = runs + 1
    /\ sbase' = Len(slog)
    /\ stdout' = <<>>
    /\ sfailed' = "none"
    /\ sraised' = FALSE
    /\ spc' = "start"
    /\ UNCHANGED slog

ScriptInit ==
    /\ spc = "start"
    /\ slog = <<>>
    /\ stdout = <<>>
    /\ sbase = 0
    /\ sfailed = "none"
    /\ sraised = FALSE
    /\ runs = 0

Init ==
    /\ FetcherInit
    /\ tz \in TzRules
    /\ ScriptInit

Next ==
    \/ (Call /\ UNCHANGED scriptVars)
    \/ (RequestOk /\ UNCHANGED scriptVars)
    \/ (RequestFail /\ UNCHANGED scriptVars)
    \/ (MetadataOk /\ UNCHANGED scriptVars)
    \/ (MetadataFail /\ UNCHANGED scriptVars)
    \/ (BuildTimeAxis /\ UNCHANGED scriptVars)
    \/ (HourlyFail /\ UNCHANGED scriptVars)
    \/ (AddColumns /\ UNCHANGED scriptVars)
    \/ (SaveOk /\ UNCHANGED scriptVars)
    \/ (SaveFail /\ UNCHANGED scriptVars)
    \/ (Return /\ UNCHANGED scriptVars)
    \/ (Tick /\ UNCHANGED scriptVars)

Spec == Init /\ [][Next]_vars


----------------------------------------------------------------------------
(* SpecTable: one call from the table assembly on, for every response *)

TableInit ==
    /\ pc = "timeaxis"
    /\ args \in DateRanges
    /\ tz \in TzRules
    /\ resp \in Responses
    /\ metadata = "extracted"
    /\ df = NoDf
    /\ result = "none"
    /\ log = <<Info("Fetching weather data")>>
    /\ stages = <<StageOk("request"), StageOk("metadata")>>
    /\ httpCalls = 1
    /\ writeCalls = 0
    /\ files = {}
    /\ filesAtCall = {}
    /\ clock = 0
    /\ nCalls = 1
    /\ nSuccess = 0
    /\ ScriptInit

TableNext ==
    \/ (BuildTimeAxis /\ UNCHANGED scriptVars)
    \/ (HourlyFail /\ UNCHANGED scriptVars)
    \/ (AddColumns /\ UNCHANGED scriptVars)
    \/ (SaveOk /\ UNCHANGED scriptVars)
    \/ (SaveFail /\ UNCHANGED scriptVars)
    \/ (Return /\ UNCHANGED scriptVars)

SpecTable == TableInit /\ [][TableNext]_vars

----------------------------------------------------------------------------
(* SpecScript: runs of the logger script *)

ScriptSpecInit ==
    /\ FetcherInit
    /\ tz \in {t \in TzRules : t.shift = 0}
    /\ ScriptInit

ScriptNext ==
    \/ (LogStartOk /\ UNCHANGED fetcherVars)
    \/ (LogStartFail /\ UNCHANGED fetcherVars)
    \/ (PrintOk /\ UNCHANGED fetcherVars)
    \/ (PrintFail /\ UNCHANGED fetcherVars)
    \/ (LogDoneOk /\ UNCHANGED fetcherVars)
    \/ (LogDoneFail /\ UNCHANGED fetcherVars)
    \/ (Rerun /\ UNCHANGED fetcherVars)

SpecScript == ScriptSpecInit /\ [][ScriptNext]_vars

----------------------------------------------------------------------------
(* Vocabulary of the properties *)

StageOrder == <<"request", "metadata", "assembly", "persistence">>

StageError(s) ==
    CASE s = "request" -> "API request failed"
      [] s = "metadata" -> "Failed to extract metadata"
      [] s = "assembly" -> "Failed to process hourly data"
      [] s = "persistence" -> "Failed to save DataFrame"

Failed(s) == \E i \in DOMAIN stages : stages[i] = StageFailed(s)

Logged(l, entry) == \E i \in DOMAIN l : l[i] = entry

\* the precipitation and rain variables of the response, by index
Returned == {i \in DOMAIN resp.vars : resp.vars[i].kind \in {"precipitation", "rain"}}

OfKind(kind) == {i \in DOMAIN resp.vars : resp.vars[i].kind = kind}

ExpectedName(v) == v.kind \o "_member" \o ToString(v.member)

ColumnNames == {df.cols[c].name : c \in DOMAIN df.cols}

\* the first returned variable of the response that a column is named after
FirstVar(c) ==
    CHOOSE i \in Returned :
        /\ ExpectedName(resp.vars[i]) = df.cols[c].name
        /\ \A j \in Returned :
              ExpectedName(resp.vars[j]) = df.cols[c].name => i <= j

Mismatched ==
    \E i \in Returned : resp.vars[i].n # Len(TimeAxis(resp))

RunLog == SubSeq(slog, sbase + 1, Len(slog))

----------------------------------------------------------------------------
(* Properties *)

\* C1: when the HTTP client call fails, the call raises to its caller with
\* the request error logged, no later stage runs, write_csv is never called
\* and the output directory holds the files it held when the call started.
C1_RequestFailureWritesNothing ==
    Failed("request") =>
        /\ pc = "raised"
        /\ result = "raised"
        /\ stages = <<StageFailed("request")>>
        /\ Logged(log, Error("API request failed"))
        /\ writeCalls = 0
        /\ files = filesAtCall

C1_Witness ==
    /\ Failed("request")
    /\ pc = "raised"
    /\ files # {}

\* C2: the stages run in the order request, metadata, assembly, persistence;
\* a failed stage is the last one executed, its error is logged and the call
\* raises; the (metadata, table) pair is returned only after four successes.
C2_FailFastPipeline ==
    /\ Len(stages) <= Len(StageOrder)
    /\ \A i \in DOMAIN stages : stages[i].stage = StageOrder[i]
    /\ \A i \in DOMAIN stages :
          ~stages[i].ok =>
              /\ i = Len(stages)
              /\ pc = "raised"
              /\ result = "raised"
              /\ Logged(log, Error(StageError(stages[i].stage)))
    /\ result \in {"none", "raised", "metadata_df"}
    /\ result = "raised" => (stages # <<>> /\ ~stages[Len(stages)].ok)
    /\ result = "metadata_df" =>
          /\ stages = [i \in 1..4 |-> StageOk(StageOrder[i])]
          /\ metadata = "extracted"
          /\ Errors(log) = <<>>

C2_Witness ==
    /\ pc = "raised"
    /\ stages = <<StageOk("request"), StageFailed("metadata")>>

\* C3 as claimed: a returned table has 1 + N + M columns, N and M the numbers
\* of precipitation and rain variables of the response, all names distinct.
C3_Original ==
    pc = "returned" =>
        /\ Len(df.cols) = Cardinality(OfKind("precipitation")) + Cardinality(OfKind("rain"))
        /\ \A c, d \in DOMAIN df.cols : df.cols[c].name = df.cols[d].name => c = d

\* C3 as amended: a returned table has one data column per distinct
\* (kind, member) pair among the precipitation and rain variables, named
\* {kind}_member{member}, all names distinct; that is N + M columns exactly
\* when no two variables of one kind carry the same member index.
C3_ColumnPerKindAndMember ==
    pc = "returned" =>
        LET keys == {<<resp.vars[i].kind, resp.vars[i].member>> : i \in Returned}
            nm == Cardinality(OfKind("precipitation")) + Cardinality(OfKind("rain"))
        IN  /\ Len(df.cols) = Cardinality(keys)
            /\ ColumnNames = {ExpectedName(resp.vars[i]) : i \in Returned}
            /\ \A c, d \in DOMAIN df.cols : df.cols[c].name = df.cols[d].name => c = d
            /\ (Len(df.cols) = nm) <=> (Cardinality(keys) = nm)

C3_Witness ==
    /\ pc = "returned"
    /\ Len(resp.vars) = 3
    /\ resp.vars[1].kind = "precipitation" /\ resp.vars[1].member = 0
    /\ resp.vars[2].kind = "precipitation" /\ resp.vars[2].member = 1
    /\ resp.vars[3].kind = "rain"
    /\ Len(df.cols) = 3

\* C4 as claimed: the data columns of a returned table stand in the order in
\* which their variables appear in the response.
C4_Original ==
    pc = "returned" =>
        \A c, d \in DOMAIN df.cols : c < d => FirstVar(c) < FirstVar(d)

\* C4 as amended: the data columns are the precipitation columns, in the
\* order their variables first appear in the response, followed by the rain
\* columns, in the order their variables first appear in the response.
C4_PrecipitationThenRain ==
    pc = "returned" =>
        \A c, d \in DOMAIN df.cols : c < d =>
            LET a == resp.vars[FirstVar(c)]
                b == resp.vars[FirstVar(d)]
            IN  \/ a.kind = "precipitation" /\ b.kind = "rain"
                \/ a.kind = b.kind /\ FirstVar(c) < FirstVar(d)

C4_Witness ==
    /\ pc = "returned"
    /\ Len(resp.vars) = 3
    /\ resp.vars[1].kind = "rain"
    /\ resp.vars[2].kind = "precipitation"
    /\ resp.vars[3].kind = "rain" /\ resp.vars[3].member # resp.vars[1].member
    /\ Len(df.cols) = 3

\* C5: for start epoch s <= end epoch e, e - s a multiple of 3600, the time
\* column has (e - s) / 3600 entries, starts at the timestamp of s, excludes
\* the timestamp of e, and consecutive entries differ by exactly one hour.
C5_TimeAxis ==
    (pc = "columns" /\ resp.start <= resp.end /\ (resp.end - resp.start) % Hour = 0) =>
        /\ Len(df.time) = (resp.end - resp.start) \div Hour
        /\ df.time # <<>> => df.time[1] = FromTimestamp(resp.start)
        /\ \A i \in DOMAIN df.time : df.time[i] # FromTimestamp(resp.end)
        /\ \A i \in DOMAIN df.time : i > 1 => df.time[i] = df.time[i - 1] + Hour

C7_OneErrorPerFailure ==
    pc = "raised" =>
        /\ Len(Errors(log)) = 1
        /\ Errors(log)[1].msg = StageError(stages[Len(stages)].stage)

\* C8: a call invokes the HTTP client exactly once, also when it fails; a
\* successful call invokes the file write exactly once, after the table is
\* assembled and before the pair is returned.
C8_OneRequestOneWrite ==
    /\ pc = "request" => httpCalls = 0
    /\ pc \notin {"idle", "request"} => httpCalls = 1
    /\ writeCalls <= 1
    /\ pc \in {"request", "metadata", "timeaxis", "columns", "save"} => writeCalls = 0
    /\ writeCalls = 1 =>
          /\ Len(stages) = 4
          /\ stages[3] = StageOk("assembly")
          /\ stages[4].stage = "persistence"
    /\ pc = "saved" => (writeCalls = 1 /\ result = "none")
    /\ result = "metadata_df" => (writeCalls = 1 /\ pc = "returned")

C8_Witness ==
    /\ pc = "returned"
    /\ httpCalls = 1
    /\ writeCalls = 1
    /\ nCalls = 2
    /\ nSuccess = 1

\* C9: "Starting script execution" is logged before the print; "Script
\* completed successfully" is logged only after the print succeeded; when a
\* statement of the try block fails the error is logged and the script ends
\* without raising.
C9_ScriptLogging ==
    /\ ~sraised
    /\ stdout # <<>> =>
          /\ stdout = <<"say something...">>
          /\ RunLog # <<>>
          /\ RunLog[1] = Info("Starting script execution")
    /\ Logged(RunLog, Info("Script completed successfully")) =>
          /\ stdout = <<"say something...">>
          /\ sfailed = "none"
          /\ RunLog = <<Info("Starting script execution"),
                        Info("Script completed successfully")>>
    /\ sfailed # "none" =>
          /\ spc = "done"
          /\ RunLog[Len(RunLog)] = Error("An error occurred")
          /\ ~Logged(RunLog, Info("Script completed successfully"))
    /\ sfailed = "print" => stdout = <<>>

C9_Witness ==
    /\ sfailed = "print"
    /\ spc = "done"
    /\ runs > 0
    /\ RunLog = <<Info("Starting script execution"), Error("An error occurred")>>

\* C10: after k successful calls the output directory holds k distinct
\* files: no successful call overwrites the file of an earlier call.
C10_OneFilePerSuccessfulCall ==
    pc \in {"returned", "raised"} => Cardinality(files) = nSuccess

====
